---------------------------- MODULE Spec2Model ----------------------------
(***************************************************************************)
(* Model of package flag (sascha-andres/flag): a thin layer over Go's      *)
(* standard flag package that takes flag defaults from environment         *)
(* variables.                                                               *)
(*                                                                          *)
(* Strings are sequences of one-character strings, so that case mapping,    *)
(* replacement, splitting and parsing are computed character by character.  *)
(***************************************************************************)
EXTENDS Integers, Sequences, FiniteSets, TLC

VARIABLES
    envPrefix,  \* src/flag.go:13  package variable envPrefix
    environ,    \* the process environment: a map from variable names to values
    flags,      \* flag.CommandLine's formal map: flag name -> flag
    mem,        \* storage cells holding flag values (the *bool, *int, ... targets)
    parsed,     \* flag.CommandLine's parsed bit
    status,     \* "running", or "exit" after os.Exit from a failed parse
    osArgs,     \* os.Args[1:]
    reg,        \* history: how each flag was registered and last assigned
    call        \* the last call of a pure function, with its result

vars == <<envPrefix, environ, flags, mem, parsed, status, osArgs, reg, call>>

---------------------------------------------------------------------------
(* Strings *)

\* all strings over alphabet A of length at most n
Str(A, n) == UNION {[1..k -> A] : k \in 0..n}

Lower == <<"a","b","c","d","e","f","g","h","i","j","k","l","m",
           "n","o","p","q","r","s","t","u","v","w","x","y","z">>
Upper == <<"A","B","C","D","E","F","G","H","I","J","K","L","M",
           "N","O","P","Q","R","S","T","U","V","W","X","Y","Z">>

\* unicode.ToUpper on one character
UpperChar(c) ==
    IF \E i \in 1..26 : Lower[i] = c
    THEN Upper[CHOOSE i \in 1..26 : Lower[i] = c]
    ELSE c

\* strings.ToUpper(s)
ToUpper(s) == [i \in 1..Len(s) |-> UpperChar(s[i])]

\* strings.Replace(s, old, new, -1) for one-character old and new
Replace(s, old, new) == [i \in 1..Len(s) |-> IF s[i] = old THEN new ELSE s[i]]

\* fmt.Sprintf("%s_%s", a, b)
Sprintf_s_s(a, b) == a \o <<"_">> \o b

---------------------------------------------------------------------------
(* Environment variable names *)

\* the hyphens of the name are kept
envNameKeepsHyphens(name) ==
    ToUpper(IF Len(envPrefix) > 0 THEN Sprintf_s_s(envPrefix, name) ELSE name)

\* the prefix is not applied
envNameIgnoresPrefix(name) == ToUpper(Replace(name, "-", "_"))

\* src/flag.go:37-43
envNameForFlagName(name) ==
    LET envName == IF Len(envPrefix) > 0 THEN Sprintf_s_s(envPrefix, name) ELSE name
    IN  ToUpper(Replace(envName, "-", "_"))

\* os.LookupEnv(key): <<value, found>>
LookupEnv(key) ==
    IF key \in DOMAIN environ THEN <<environ[key], TRUE>> ELSE <<<<>>, FALSE>>

---------------------------------------------------------------------------
(* strconv and time parsers, as called by the package and by the flag      *)
(* values of the standard library.  A result is [v |-> value, err |-> e]    *)
(* with e one of "nil", "syntax", "range".  The digit separator "_" and     *)
(* float exponents are outside the alphabets used below.                    *)

\* Width of int64 and uint64 in the model.  The source passes 64 to
\* strconv; 2^64 is beyond the checker's integers, so every range check is
\* made against this width instead.
IntBits == 8

\* strconv.IntSize: int and uint are as wide as int64 and uint64 (a 64-bit
\* platform)
IntSize == IntBits

RECURSIVE Pow(_, _)
Pow(b, e) == IF e = 0 THEN 1 ELSE b * Pow(b, e - 1)

Digits == <<"0","1","2","3","4","5","6","7","8","9">>

IsDigit(c) == \E i \in 1..10 : Digits[i] = c
IsLetter(c) == \E i \in 1..26 : Lower[i] = c \/ Upper[i] = c

\* the value of c as a digit in bases up to 36, 99 when it is none
DigitVal(c) ==
    IF IsDigit(c) THEN (CHOOSE i \in 1..10 : Digits[i] = c) - 1
    ELSE IF IsLetter(c)
         THEN (CHOOSE i \in 1..26 : Lower[i] = c \/ Upper[i] = c) + 9
         ELSE 99

From(s, k) == SubSeq(s, k, Len(s))   \* s[k-1:] of Go, k counted from 1

\* the digit loop of strconv.ParseUint
RECURSIVE UintLoop(_, _, _, _)
UintLoop(s, base, maxVal, n) ==
    IF s = <<>> THEN [v |-> n, err |-> "nil"]
    ELSE LET d == DigitVal(s[1]) IN
         IF d >= base THEN [v |-> 0, err |-> "syntax"]
         ELSE IF n * base + d > maxVal THEN [v |-> maxVal, err |-> "range"]
         ELSE UintLoop(From(s, 2), base, maxVal, n * base + d)

\* strconv.ParseUint(s, 0, bitSize)
ParseUint0(s, bitSize) ==
    IF s = <<>> THEN [v |-> 0, err |-> "syntax"]
    ELSE LET pre(c) == Len(s) >= 3 /\ (s[2] = c \/ s[2] = UpperChar(c))
             base == IF s[1] # "0" THEN 10
                     ELSE IF pre("b") THEN 2
                     ELSE IF pre("o") THEN 8
                     ELSE IF pre("x") THEN 16
                     ELSE 8
             rest == IF s[1] # "0" THEN s
                     ELSE IF pre("b") \/ pre("o") \/ pre("x") THEN From(s, 3)
                     ELSE From(s, 2)
         IN  UintLoop(rest, base, Pow(2, bitSize) - 1, 0)

\* strconv.ParseInt(s, 0, bitSize)
ParseInt0(s, bitSize) ==
    IF s = <<>> THEN [v |-> 0, err |-> "syntax"]
    ELSE LET neg    == s[1] = "-"
             body   == IF s[1] = "+" \/ s[1] = "-" THEN From(s, 2) ELSE s
             un     == ParseUint0(body, bitSize)
             cutoff == Pow(2, bitSize - 1)
         IN  IF un.err = "syntax" THEN [v |-> 0, err |-> "syntax"]
             ELSE IF ~neg /\ un.v >= cutoff THEN [v |-> cutoff - 1, err |-> "range"]
             ELSE IF neg /\ un.v > cutoff THEN [v |-> -cutoff, err |-> "range"]
             ELSE [v |-> IF neg THEN -un.v ELSE un.v, err |-> "nil"]

\* Longest environment or command-line value built from single characters
MaxValLen == 3

\* float64 values are held as integers, in units of 10^-MaxValLen
FloatOne == Pow(10, MaxValLen)

\* the length of the longest prefix of s made of digits
RECURSIVE LeadingDigits(_)
LeadingDigits(s) ==
    IF s # <<>> /\ IsDigit(s[1]) THEN 1 + LeadingDigits(From(s, 2)) ELSE 0

\* the decimal value of a string of digits
RECURSIVE DecVal(_)
DecVal(s) ==
    IF s = <<>> THEN 0 ELSE DecVal(SubSeq(s, 1, Len(s) - 1)) * 10 + DigitVal(s[Len(s)])

\* strconv.ParseFloat(s, 64) on decimal notation: sign, digits, at most one
\* point, at least one digit, and nothing after them
ParseFloat(s) ==
    LET signed == s # <<>> /\ (s[1] = "+" \/ s[1] = "-")
        body   == IF signed THEN From(s, 2) ELSE s
        ni     == LeadingDigits(body)
        afterI == From(body, ni + 1)
        dot    == afterI # <<>> /\ afterI[1] = "."
        fr     == IF dot THEN From(afterI, 2) ELSE afterI
        nf     == IF dot THEN LeadingDigits(fr) ELSE 0
        rest   == From(fr, nf + 1)
        mag    == DecVal(SubSeq(body, 1, ni)) * FloatOne
                  + (DecVal(SubSeq(fr, 1, nf)) * FloatOne) \div Pow(10, nf)
    IN  IF ni + nf = 0 \/ rest # <<>> THEN [v |-> 0, err |-> "syntax"]
        ELSE [v |-> IF signed /\ s[1] = "-" THEN -mag ELSE mag, err |-> "nil"]

\* time's unitMap, in milliseconds; 0 for an unknown unit
UnitMap(u) ==
    IF u = <<"m","s">> THEN 1
    ELSE IF u = <<"s">> THEN 1000
    ELSE IF u = <<"m">> THEN 60000
    ELSE IF u = <<"h">> THEN 3600000
    ELSE 0

\* the length of the unit at the head of s: up to the next digit or point
RECURSIVE UnitLen(_)
UnitLen(s) ==
    IF s # <<>> /\ ~IsDigit(s[1]) /\ s[1] # "." THEN 1 + UnitLen(From(s, 2)) ELSE 0

\* the loop of time.ParseDuration over the groups <number><unit>
RECURSIVE DurationLoop(_, _)
DurationLoop(s, d) ==
    IF s = <<>> THEN [v |-> d, err |-> "nil"]
    ELSE LET ni   == LeadingDigits(s)
             s1   == From(s, ni + 1)
             dot  == s1 # <<>> /\ s1[1] = "."
             fr   == IF dot THEN From(s1, 2) ELSE s1
             nf   == IF dot THEN LeadingDigits(fr) ELSE 0
             s2   == From(fr, nf + 1)
             ul   == UnitLen(s2)
             unit == UnitMap(SubSeq(s2, 1, ul))
             v    == DecVal(SubSeq(s, 1, ni)) * unit
                     + (DecVal(SubSeq(fr, 1, nf)) * unit) \div Pow(10, nf)
         IN  IF ~(s[1] = "." \/ IsDigit(s[1])) THEN [v |-> 0, err |-> "syntax"]
             ELSE IF ni + nf = 0 THEN [v |-> 0, err |-> "syntax"]
             ELSE IF ul = 0 THEN [v |-> 0, err |-> "syntax"]
             ELSE IF unit = 0 THEN [v |-> 0, err |-> "syntax"]
             ELSE DurationLoop(From(s2, ul + 1), d + v)

\* time.ParseDuration(s), the result in milliseconds
ParseDuration(s) ==
    LET signed == s # <<>> /\ (s[1] = "+" \/ s[1] = "-")
        body   == IF signed THEN From(s, 2) ELSE s
        r      == DurationLoop(body, 0)
    IN  IF body = <<"0">> THEN [v |-> 0, err |-> "nil"]
        ELSE IF body = <<>> THEN [v |-> 0, err |-> "syntax"]
        ELSE IF r.err # "nil" THEN r
        ELSE [v |-> IF signed /\ s[1] = "-" THEN -r.v ELSE r.v, err |-> "nil"]

True  == <<"t","r","u","e">>
False == <<"f","a","l","s","e">>

\* strconv.ParseBool(s)
ParseBool(s) ==
    IF s \in {<<"1">>, <<"t">>, <<"T">>, <<"T","R","U","E">>, True, <<"T","r","u","e">>}
    THEN [v |-> TRUE, err |-> "nil"]
    ELSE IF s \in {<<"0">>, <<"f">>, <<"F">>, <<"F","A","L","S","E">>, False,
                   <<"F","a","l","s","e">>}
    THEN [v |-> FALSE, err |-> "nil"]
    ELSE [v |-> FALSE, err |-> "syntax"]

\* int(x) and int64(x): signed conversion to a width of bits
ToSigned(x, bits) ==
    LET m == x % Pow(2, bits)
    IN  IF m >= Pow(2, bits - 1) THEN m - Pow(2, bits) ELSE m

\* uint(x) and uint64(x): unsigned conversion to a width of bits
ToUnsigned(x, bits) == x % Pow(2, bits)

---------------------------------------------------------------------------
(* Defaults from the environment *)

\* text other than "true" and "false" falls back to the declared default
boolFromEnvFallsBack(name, value) ==
    LET l == LookupEnv(envNameForFlagName(name))
    IN  IF ~l[2] \/ l[1] \notin {True, False} THEN value ELSE l[1] = True

\* src/flag.go:47-53
boolFromEnv(name, value) ==
    LET l == LookupEnv(envNameForFlagName(name))
    IN  IF ~l[2] THEN value ELSE l[1] = True

\* the value of the variable is never used
durationFromEnvIgnoresValue(name, value) == value

\* src/flag.go:68-78
durationFromEnv(name, value) ==
    LET l   == LookupEnv(envNameForFlagName(name))
        dur == ParseDuration(l[1])
    IN  IF ~l[2] THEN value
        ELSE IF dur.err # "nil" THEN value
        ELSE dur.v

\* src/flag.go:95-105
float64FromEnv(name, value) ==
    LET l  == LookupEnv(envNameForFlagName(name))
        fl == ParseFloat(l[1])
    IN  IF ~l[2] THEN value
        ELSE IF fl.err # "nil" THEN value
        ELSE fl.v

\* an unset variable gives zero
int64FromEnvZeroWhenUnset(name, value) ==
    LET l == LookupEnv(envNameForFlagName(name))
        i == ParseInt0(l[1], IntBits)
    IN  IF ~l[2] THEN 0
        ELSE IF i.err # "nil" THEN value
        ELSE i.v

\* src/flag.go:127-137
int64FromEnv(name, value) ==
    LET l == LookupEnv(envNameForFlagName(name))
        i == ParseInt0(l[1], IntBits)
    IN  IF ~l[2] THEN value
        ELSE IF i.err # "nil" THEN value
        ELSE i.v

\* src/flag.go:219-225
stringFromEnv(name, value) ==
    LET l == LookupEnv(envNameForFlagName(name))
    IN  IF ~l[2] THEN value ELSE l[1]

\* a rejected value gives what the parser returned with its error
uint64FromEnvKeepsFailedParse(name, value) ==
    LET l == LookupEnv(envNameForFlagName(name))
        i == ParseUint0(l[1], IntBits)
    IN  IF ~l[2] THEN value ELSE i.v

\* src/flag.go:240-250
uint64FromEnv(name, value) ==
    LET l == LookupEnv(envNameForFlagName(name))
        i == ParseUint0(l[1], IntBits)
    IN  IF ~l[2] THEN value
        ELSE IF i.err # "nil" THEN value
        ELSE i.v

---------------------------------------------------------------------------
(* The standard flag package: flag.CommandLine *)

Types == {"bool", "duration", "float64", "int", "int64", "uint", "uint64", "string"}

\* the cell a value constructor allocates for flag name (new(T))
NewCell(name) == <<"new", name>>

\* the caller's variable of a type that it passes for flag name
CallerCell(type, name) == <<"caller", type, name>>

\* the zero value of a type
Zero(type) ==
    IF type = "bool" THEN FALSE
    ELSE IF type = "string" THEN <<>>
    ELSE 0

\* the history entry of a registration call: the constructor, the declared
\* default, the caller's pointer (<<>> for a value constructor), the prefix
\* and the environment at the call, and how the flag was last assigned
Called(ctor, name, value, p) ==
    reg' = (name :> [ctor |-> ctor, value |-> value, p |-> p,
                     prefix |-> envPrefix, environ |-> environ,
                     set |-> "no", given |-> <<>>]) @@ reg

\* FlagSet.Var with a value of the type stored at cell: the cell is written
\* and the flag is entered in formal.  Defining a name twice panics; the
\* programs modelled here define each name once.
f_Var(type, cell, name, value) ==
    /\ status = "running"
    /\ name \notin DOMAIN flags
    /\ mem' = (cell :> value) @@ mem
    /\ flags' = (name :> [type |-> type, cell |-> cell, DefValue |-> value]) @@ flags
    /\ UNCHANGED <<envPrefix, environ, parsed, status, osArgs, call>>

\* flag.Value.Set of each type: the parse of s, stored even when it fails
ValueSet(type, s) ==
    IF type = "bool" THEN ParseBool(s)
    ELSE IF type = "duration" THEN ParseDuration(s)
    ELSE IF type = "float64" THEN ParseFloat(s)
    ELSE IF type = "int" THEN ParseInt0(s, IntSize)
    ELSE IF type = "int64" THEN ParseInt0(s, IntBits)
    ELSE IF type = "uint" THEN ParseUint0(s, IntSize)
    ELSE IF type = "uint64" THEN ParseUint0(s, IntBits)
    ELSE [v |-> s, err |-> "nil"]

\* the position of the first "=" of s after its first character, 0 if none
RECURSIVE IndexEq(_, _)
IndexEq(s, i) ==
    IF i > Len(s) THEN 0 ELSE IF s[i] = "=" THEN i ELSE IndexEq(s, i + 1)

\* FlagSet.Parse's loop over parseOne: the cells and the history after the
\* scan of args, with err "nil" or, under ExitOnError, "exit"
RECURSIVE ParseLoop(_, _, _)
ParseLoop(args, m, r) ==
    IF args = <<>> THEN [mem |-> m, reg |-> r, err |-> "nil"]
    ELSE
    LET s          == args[1]
        numMinuses == IF Len(s) >= 2 /\ s[2] = "-" THEN 2 ELSE 1
        name0      == From(s, numMinuses + 1)
        eq         == IndexEq(name0, 2)
        name       == IF eq = 0 THEN name0 ELSE SubSeq(name0, 1, eq - 1)
        isBool     == flags[name].type = "bool"
        hasValue   == eq # 0 \/ (~isBool /\ Len(args) > 1)
        value      == IF eq # 0 THEN From(name0, eq + 1)
                      ELSE IF isBool THEN True
                      ELSE args[2]
        rest       == IF eq = 0 /\ ~isBool THEN From(args, 3) ELSE From(args, 2)
        set        == ValueSet(flags[name].type, value)
        stop       == [mem |-> m, reg |-> r, err |-> "nil"]
        fail       == [mem |-> m, reg |-> r, err |-> "exit"]
    IN  IF Len(s) < 2 \/ s[1] # "-" THEN stop
        ELSE IF numMinuses = 2 /\ Len(s) = 2 THEN stop
        ELSE IF Len(name0) = 0 \/ name0[1] = "-" \/ name0[1] = "=" THEN fail
        ELSE IF name \notin DOMAIN flags THEN fail
        ELSE IF ~isBool /\ ~hasValue THEN fail
        ELSE IF set.err # "nil"
             THEN [mem |-> [m EXCEPT ![flags[name].cell] = set.v],
                   reg |-> [r EXCEPT ![name].set = "Parse", ![name].given = value],
                   err |-> "exit"]
        ELSE ParseLoop(rest,
                       [m EXCEPT ![flags[name].cell] = set.v],
                       [r EXCEPT ![name].set = "Parse", ![name].given = value])

---------------------------------------------------------------------------
(* The package's functions *)

\* src/flag.go:32-34
SetEnvPrefix(prefix) ==
    /\ status = "running"
    /\ envPrefix' = prefix
    /\ UNCHANGED <<environ, flags, mem, parsed, status, osArgs, reg, call>>

\* src/flag.go:57-59
Bool(name, value) ==
    /\ f_Var("bool", NewCell(name), name, boolFromEnv(name, value))
    /\ Called("Bool", name, value, <<>>)

\* src/flag.go:63-65
BoolVar(p, name, value) ==
    /\ f_Var("bool", p, name, boolFromEnv(name, value))
    /\ Called("BoolVar", name, value, p)

\* src/flag.go:83-85
Duration(name, value) ==
    /\ f_Var("duration", NewCell(name), name, durationFromEnv(name, value))
    /\ Called("Duration", name, value, <<>>)

\* src/flag.go:90-92
DurationVar(p, name, value) ==
    /\ f_Var("duration", p, name, durationFromEnv(name, value))
    /\ Called("DurationVar", name, value, p)

\* src/flag.go:109-111
Float64(name, value) ==
    /\ f_Var("float64", NewCell(name), name, float64FromEnv(name, value))
    /\ Called("Float64", name, value, <<>>)

\* src/flag.go:115-117
Float64Var(p, name, value) ==
    /\ f_Var("float64", p, name, float64FromEnv(name, value))
    /\ Called("Float64Var", name, value, p)

\* src/flag.go:141-143
IntFlag(name, value) ==
    /\ f_Var("int", NewCell(name), name,
             ToSigned(int64FromEnv(name, ToSigned(value, IntBits)), IntSize))
    /\ Called("Int", name, value, <<>>)

\* src/flag.go:147-149
Int64(name, value) ==
    /\ f_Var("int64", NewCell(name), name, int64FromEnv(name, value))
    /\ Called("Int64", name, value, <<>>)

\* src/flag.go:153-155
Int64Var(p, name, value) ==
    /\ f_Var("int64", p, name, int64FromEnv(name, value))
    /\ Called("Int64Var", name, value, p)

\* src/flag.go:159-161
IntVar(p, name, value) ==
    /\ f_Var("int", p, name,
             ToSigned(int64FromEnv(name, ToSigned(value, IntBits)), IntSize))
    /\ Called("IntVar", name, value, p)

\* src/flag.go:229-231
String(name, value) ==
    /\ f_Var("string", NewCell(name), name, stringFromEnv(name, value))
    /\ Called("String", name, value, <<>>)

\* src/flag.go:235-237
StringVar(p, name, value) ==
    /\ f_Var("string", p, name, stringFromEnv(name, value))
    /\ Called("StringVar", name, value, p)

\* src/flag.go:254-256
Uint(name, value) ==
    /\ f_Var("uint", NewCell(name), name,
             ToUnsigned(uint64FromEnv(name, ToUnsigned(value, IntBits)), IntSize))
    /\ Called("Uint", name, value, <<>>)

\* src/flag.go:260-262
Uint64(name, value) ==
    /\ f_Var("uint64", NewCell(name), name, uint64FromEnv(name, value))
    /\ Called("Uint64", name, value, <<>>)

\* src/flag.go:266-268
Uint64Var(p, name, value) ==
    /\ f_Var("uint64", p, name, uint64FromEnv(name, value))
    /\ Called("Uint64Var", name, value, p)

\* src/flag.go:272-274: the flag is defined with f.Uint, p is not used
UintVar(p, name, value) ==
    /\ f_Var("uint", NewCell(name), name,
             ToUnsigned(uint64FromEnv(name, ToUnsigned(value, IntBits)), IntSize))
    /\ Called("UintVar", name, value, p)

\* a parse after which a flag whose environment variable is set keeps the
\* value it had
ParseEnvWins ==
    /\ status = "running"
    /\ LET r == ParseLoop(osArgs, mem, reg)
           envSet(c) == \E n \in DOMAIN flags :
                           /\ flags[n].cell = c
                           /\ envNameForFlagName(n) \in DOMAIN environ
       IN  /\ mem' = [c \in DOMAIN r.mem |-> IF envSet(c) THEN mem[c] ELSE r.mem[c]]
           /\ reg' = r.reg
           /\ status' = IF r.err = "nil" THEN "running" ELSE "exit"
    /\ parsed' = TRUE
    /\ UNCHANGED <<envPrefix, environ, flags, osArgs, call>>

\* src/flag.go:174-176: f.Parse() over os.Args[1:] with ExitOnError
Parse ==
    /\ status = "running"
    /\ LET r == ParseLoop(osArgs, mem, reg)
       IN  /\ mem' = r.mem
           /\ reg' = r.reg
           /\ status' = IF r.err = "nil" THEN "running" ELSE "exit"
    /\ parsed' = TRUE
    /\ UNCHANGED <<envPrefix, environ, flags, osArgs, call>>

\* src/flag.go:214-216: f.Set(name, value); an unknown name is an error
\* returned to the caller and changes nothing
Set(name, value) ==
    /\ status = "running"
    /\ IF name \in DOMAIN flags
       THEN /\ mem' = [mem EXCEPT ![flags[name].cell] = ValueSet(flags[name].type, value).v]
            /\ reg' = [reg EXCEPT ![name].set = "Set", ![name].given = value]
       ELSE UNCHANGED <<mem, reg>>
    /\ UNCHANGED <<envPrefix, environ, flags, parsed, status, osArgs, call>>

\* os.Setenv(key, value) by the program or its caller
Setenv(key, value) ==
    /\ status = "running"
    /\ environ' = (key :> value) @@ environ
    /\ UNCHANGED <<envPrefix, flags, mem, parsed, status, osArgs, reg, call>>

\* os.Unsetenv(key)
Unsetenv(key) ==
    /\ status = "running"
    /\ key \in DOMAIN environ
    /\ environ' = [k \in DOMAIN environ \ {key} |-> environ[k]]
    /\ UNCHANGED <<envPrefix, flags, mem, parsed, status, osArgs, reg, call>>

\* the calls of the pure functions record their arguments and result in call

\* src/flag.go:37-43, called by a test of the package
CallEnvNameForFlagName(name) ==
    /\ status = "running"
    /\ call' = [op |-> "envNameForFlagName", prefix |-> envPrefix, name |-> name,
                out |-> envNameForFlagName(name)]
    /\ UNCHANGED <<envPrefix, environ, flags, mem, parsed, status, osArgs, reg>>

\* strings.Index(s, ","): the position of the first comma, 0 if none
RECURSIVE IndexComma(_, _)
IndexComma(s, i) ==
    IF i > Len(s) THEN 0 ELSE IF s[i] = "," THEN i ELSE IndexComma(s, i + 1)

\* a split that drops the empty pieces
RECURSIVE SplitDropsEmpty(_)
SplitDropsEmpty(s) ==
    LET m == IndexComma(s, 1)
    IN  IF m = 0 THEN (IF s = <<>> THEN <<>> ELSE <<s>>)
        ELSE (IF m = 1 THEN <<>> ELSE <<SubSeq(s, 1, m - 1)>>)
             \o SplitDropsEmpty(From(s, m + 1))

\* strings.Split(s, ",")
RECURSIVE Split(_)
Split(s) ==
    LET m == IndexComma(s, 1)
    IN  IF m = 0 THEN <<s>>
        ELSE <<SubSeq(s, 1, m - 1)>> \o Split(From(s, m + 1))

\* src/list.go:6-8
ListFromString(s) == Split(s)

\* a call of ListFromString
CallListFromString(s) ==
    /\ status = "running"
    /\ call' = [op |-> "ListFromString", s |-> s, out |-> ListFromString(s)]
    /\ UNCHANGED <<envPrefix, environ, flags, mem, parsed, status, osArgs, reg>>

\* the verbs without their repetitions
RECURSIVE VerbsNoDuplicates(_)
VerbsNoDuplicates(args) ==
    IF args = <<>> \/ (args[1] # <<>> /\ args[1][1] = "-") THEN <<>>
    ELSE LET rest == VerbsNoDuplicates(From(args, 2))
         IN  IF \E i \in 1..Len(rest) : rest[i] = args[1] THEN rest
             ELSE <<args[1]>> \o rest

\* section 4.2: the tokens of the raw argument vector before the first one
\* that begins with "-"
RECURSIVE Verbs(_)
Verbs(args) ==
    IF args = <<>> \/ (args[1] # <<>> /\ args[1][1] = "-") THEN <<>>
    ELSE <<args[1]>> \o Verbs(From(args, 2))

\* GetVerbs(), called after Parse (src/unnamed/part_000:44-45)
GetVerbs ==
    /\ status = "running"
    /\ parsed
    /\ call' = [op |-> "GetVerbs", out |-> Verbs(osArgs)]
    /\ UNCHANGED <<envPrefix, environ, flags, mem, parsed, status, osArgs, reg>>

---------------------------------------------------------------------------
(* The program around the package: inputs and the order of calls *)

\* declared defaults of each type
Declared(type) ==
    IF type = "bool" THEN BOOLEAN
    ELSE IF type = "string" THEN {<<>>, <<"d">>}
    ELSE IF type = "float64" THEN {0, (5 * FloatOne) \div 2}
    ELSE IF type = "duration" THEN {0, 1500}
    ELSE IF type \in {"int", "int64"} THEN {-3, 7}
    ELSE {0, 7}

\* the sixteen flag definition functions, called for a name of names; a Var
\* constructor is given the caller's variable of the type for that name
Define(names) ==
    \E name \in names :
        \/ \E value \in Declared("bool") : Bool(name, value)
        \/ \E value \in Declared("bool") : BoolVar(CallerCell("bool", name), name, value)
        \/ \E value \in Declared("duration") : Duration(name, value)
        \/ \E value \in Declared("duration") :
               DurationVar(CallerCell("duration", name), name, value)
        \/ \E value \in Declared("float64") : Float64(name, value)
        \/ \E value \in Declared("float64") :
               Float64Var(CallerCell("float64", name), name, value)
        \/ \E value \in Declared("int") : IntFlag(name, value)
        \/ \E value \in Declared("int") : IntVar(CallerCell("int", name), name, value)
        \/ \E value \in Declared("int64") : Int64(name, value)
        \/ \E value \in Declared("int64") : Int64Var(CallerCell("int64", name), name, value)
        \/ \E value \in Declared("string") : String(name, value)
        \/ \E value \in Declared("string") :
               StringVar(CallerCell("string", name), name, value)
        \/ \E value \in Declared("uint") : Uint(name, value)
        \/ \E value \in Declared("uint") : UintVar(CallerCell("uint", name), name, value)
        \/ \E value \in Declared("uint64") : Uint64(name, value)
        \/ \E value \in Declared("uint64") :
               Uint64Var(CallerCell("uint64", name), name, value)

\* the caller's variables for names, zero until a Var constructor binds them
CallerCells(names) == {CallerCell(type, n) : type \in Types, n \in names}

\* the state of a process started with environment env and command line args
Start(env, args, names) ==
    /\ envPrefix = <<>>
    /\ environ = env
    /\ flags = <<>>
    /\ mem = [c \in CallerCells(names) |-> Zero(c[2])]
    /\ parsed = FALSE
    /\ status = "running"
    /\ osArgs = args
    /\ reg = <<>>
    /\ call = [op |-> "none"]

---------------------------------------------------------------------------
(* Spec: a program that sets a prefix, defines one flag, parses its        *)
(* command line and sets the flag                                           *)

FlagNames == {<<"n">>}
Prefixes  == {<<>>, <<"p">>}
EnvKeys   == {<<"N">>, <<"P","_","N">>}
EnvValues == {<<"9">>, <<"2","s">>, True}
CmdValues == {<<"7">>, <<"1","s">>}

\* Longest command line
MaxArgs == 2

\* command-line tokens: -name, -name=value, value, and the terminator
Tokens ==
    {<<"-">> \o n : n \in FlagNames}
    \cup {<<"-">> \o n \o <<"=">> \o v : n \in FlagNames, v \in CmdValues}
    \cup CmdValues \cup {<<"-","-">>}

Init ==
    \E env \in {<<>>} \cup {k :> v : k \in EnvKeys, v \in EnvValues},
       args \in Str(Tokens, MaxArgs) :
        Start(env, args, FlagNames)

Next ==
    \/ \E prefix \in Prefixes : SetEnvPrefix(prefix)
    \/ Define(FlagNames)
    \/ Parse
    \/ \E name \in FlagNames, value \in CmdValues : Set(name, value)

Spec == Init /\ [][Next]_vars

---------------------------------------------------------------------------
(* SpecName: a test that sets prefixes and then asks for one name           *)

\* Longest prefix and longest flag name built from single characters
MaxNameLen == 2

NameChars == {"a", "Z", "-", "_", "1"}

App        == <<"A","P","P">>
MaxRetries == <<"m","a","x","-","r","e","t","r","i","e","s">>

NamePrefixes == Str(NameChars, MaxNameLen) \cup {App}
NameNames    == (Str(NameChars, MaxNameLen) \ {<<>>}) \cup {MaxRetries}

InitName == Start(<<>>, <<>>, {})

NextName ==
    \/ \E prefix \in NamePrefixes : call.op = "none" /\ SetEnvPrefix(prefix)
    \/ \E name \in NameNames : call.op = "none" /\ CallEnvNameForFlagName(name)
    \/ Setenv(<<"Z">>, <<"1">>)

SpecName == InitName /\ [][NextName]_vars

---------------------------------------------------------------------------
(* SpecList: calls of the list parser                                       *)

\* Longest string given to the list parser
MaxStrLen == 4

ListChars == {"a", "b", ",", " "}

InitList == Start(<<>>, <<>>, {})

NextList == \E s \in Str(ListChars, MaxStrLen) : CallListFromString(s)

SpecList == InitList /\ [][NextList]_vars

---------------------------------------------------------------------------
(* SpecVerbs: a program that may define the flag t, parses, and asks for    *)
(* the verbs                                                                *)

\* Longest command line of the verb program
MaxVerbArgs == 4

VerbNames  == {<<"t">>}
VerbTokens == {<<"v">>, <<"w">>, <<"-","t">>, <<"1">>}

InitVerbs == \E args \in Str(VerbTokens, MaxVerbArgs) : Start(<<>>, args, VerbNames)

NextVerbs ==
    \/ \E name \in VerbNames : String(name, <<>>)
    \/ Parse
    \/ GetVerbs

SpecVerbs == InitVerbs /\ [][NextVerbs]_vars

---------------------------------------------------------------------------
(* SpecResolve: a program started in any environment that may set a prefix  *)
(* and then defines one flag                                                *)

ResolveNames == {<<"m","-","x">>}
ResolveKeys  == {<<"M","_","X">>, <<"P","_","M","_","X">>}
ValChars     == {"0", "1", "8", "-", "x", "s", "."}
BoolWords    == {True, False, <<"T","R","U","E">>}

ResolveValues == Str(ValChars, MaxValLen) \cup BoolWords

InitResolve ==
    \E env \in {<<>>} \cup {k :> v : k \in ResolveKeys, v \in ResolveValues} :
        Start(env, <<>>, ResolveNames)

NextResolve ==
    \/ \E prefix \in Prefixes : flags = <<>> /\ SetEnvPrefix(prefix)
    \/ Define(ResolveNames)

SpecResolve == InitResolve /\ [][NextResolve]_vars

---------------------------------------------------------------------------
(* SpecReg: a program whose prefix and environment change while it defines  *)
(* and sets a flag                                                          *)

InitReg == Start(<<>>, <<>>, ResolveNames)

NextReg ==
    \/ \E prefix \in Prefixes : SetEnvPrefix(prefix)
    \/ Define(ResolveNames)
    \/ \E name \in ResolveNames, value \in CmdValues : Set(name, value)
    \/ \E key \in ResolveKeys, value \in EnvValues : Setenv(key, value)
    \/ \E key \in ResolveKeys : Unsetenv(key)

SpecReg == InitReg /\ [][NextReg]_vars

---------------------------------------------------------------------------
(* What the claims refer to *)

\* the environment variable of a flag, character by character
ExpectedEnvName(prefix, name) ==
    LET up(s) == [i \in 1..Len(s) |->
                    IF s[i] = "-" THEN "_" ELSE UpperChar(s[i])]
    IN  IF prefix = <<>> THEN up(name) ELSE up(prefix) \o <<"_">> \o up(name)

\* the type a constructor defines
TypeOf(ctor) ==
    IF ctor \in {"Bool", "BoolVar"} THEN "bool"
    ELSE IF ctor \in {"Duration", "DurationVar"} THEN "duration"
    ELSE IF ctor \in {"Float64", "Float64Var"} THEN "float64"
    ELSE IF ctor \in {"Int", "IntVar"} THEN "int"
    ELSE IF ctor \in {"Int64", "Int64Var"} THEN "int64"
    ELSE IF ctor \in {"Uint", "UintVar"} THEN "uint"
    ELSE IF ctor \in {"Uint64", "Uint64Var"} THEN "uint64"
    ELSE "string"

VarCtors == {"BoolVar", "DurationVar", "Float64Var", "IntVar", "Int64Var",
             "StringVar", "UintVar", "Uint64Var"}

\* the variable of flag name under prefix in env: <<value, found>>
EnvOf(prefix, env, name) ==
    LET k == ExpectedEnvName(prefix, name)
    IN  IF k \in DOMAIN env THEN <<env[k], TRUE>> ELSE <<<<>>, FALSE>>

\* the flag's environment variable at its registration: <<value, found>>
EnvAtRegistration(n) == EnvOf(reg[n].prefix, reg[n].environ, n)

\* the parse of an environment value for a type by section 4.1: bool is the
\* comparison with "true", string is the value itself
EnvParse(type, s) ==
    IF type = "bool" THEN [v |-> s = True, err |-> "nil"]
    ELSE IF type = "duration" THEN ParseDuration(s)
    ELSE IF type = "float64" THEN ParseFloat(s)
    ELSE IF type \in {"int", "int64"} THEN ParseInt0(s, IntBits)
    ELSE IF type \in {"uint", "uint64"} THEN ParseUint0(s, IntBits)
    ELSE [v |-> s, err |-> "nil"]

\* a value the type accepts: for bool the literals "true" and "false"
ValidFor(type, s) ==
    IF type = "bool" THEN s \in {True, False} ELSE EnvParse(type, s).err = "nil"

\* a value that is malformed for the type: for bool, text that is no boolean
InvalidFor(type, s) ==
    IF type = "bool" THEN ParseBool(s).err # "nil" ELSE EnvParse(type, s).err # "nil"

\* the effective default by section 4.1 of a flag of a type with a declared
\* default, under a prefix and an environment
ResolvedWith(type, declared, prefix, env, name) ==
    LET e == EnvOf(prefix, env, name)
        r == EnvParse(type, e[1])
    IN  IF e[2] /\ r.err = "nil" THEN r.v ELSE declared

\* the effective default of flag n from the prefix and the environment at its
\* registration
Resolved(n) ==
    ResolvedWith(TypeOf(reg[n].ctor), reg[n].value, reg[n].prefix, reg[n].environ, n)

\* the current value of flag n
ValueOf(n) == mem[flags[n].cell]

AppMaxRetries ==
    <<"A","P","P","_","M","A","X","_","R","E","T","R","I","E","S">>

\* C1: the environment name is the upper-cased prefix, "_" and name with the
\* hyphens replaced by underscores, or the upper-cased, hyphen-replaced name
\* alone under the empty prefix; APP and max-retries give APP_MAX_RETRIES.
C1_EnvName ==
    call.op = "envNameForFlagName" =>
        /\ call.out = ExpectedEnvName(call.prefix, call.name)
        /\ (call.prefix = App /\ call.name = MaxRetries) => call.out = AppMaxRetries
        /\ (call.prefix = <<>> /\ call.name = MaxRetries) =>
               call.out = SubSeq(AppMaxRetries, 5, 15)

\* the name asked for max-retries under the prefix APP
C1_Witness ==
    /\ call.op = "envNameForFlagName"
    /\ call.prefix = App
    /\ call.name = MaxRetries
    /\ environ # <<>>

\* C2: a flag whose environment variable is unset at its registration gets
\* its declared default, for every constructor.
C2_UnsetKeepsDeclared ==
    \A n \in DOMAIN flags :
        ~EnvAtRegistration(n)[2] =>
            /\ flags[n].DefValue = reg[n].value
            /\ ValueOf(n) = reg[n].value

\* an int flag with a non-zero declared default defined while only another
\* variable is set
C2_Witness ==
    \E n \in DOMAIN flags :
        /\ ~EnvAtRegistration(n)[2]
        /\ reg[n].environ # <<>>
        /\ reg[n].ctor = "IntVar"
        /\ reg[n].value = 7

\* C3 as stated: a bool, integer, unsigned, float or duration flag whose
\* environment variable holds a malformed value gets its declared default.
C3_InvalidFallsBack ==
    \A n \in DOMAIN flags :
        LET e == EnvAtRegistration(n) IN
        (flags[n].type # "string" /\ e[2] /\ InvalidFor(flags[n].type, e[1])) =>
            flags[n].DefValue = reg[n].value

\* C3 amended: an integer, unsigned, float or duration flag whose environment
\* variable holds a value its parser rejects gets its declared default, and
\* the program goes on.
C3_InvalidFallsBackExceptBool ==
    \A n \in DOMAIN flags :
        LET e == EnvAtRegistration(n) IN
        (flags[n].type \notin {"string", "bool"} /\ e[2]
            /\ InvalidFor(flags[n].type, e[1])) =>
            /\ flags[n].DefValue = reg[n].value
            /\ ValueOf(n) = reg[n].value
            /\ status = "running"

\* an int64 flag declared 7 whose variable holds "08", no octal number
C3_Witness ==
    \E n \in DOMAIN flags :
        /\ flags[n].type = "int64"
        /\ reg[n].value = 7
        /\ EnvAtRegistration(n) = <<<<"0","8">>, TRUE>>

\* C4: a bool flag whose environment variable is set is true exactly when the
\* value is "true", whatever the declared default.
C4_BoolTrueOnlyForTrue ==
    \A n \in DOMAIN flags :
        LET e == EnvAtRegistration(n) IN
        (flags[n].type = "bool" /\ e[2]) => flags[n].DefValue = (e[1] = True)

\* a bool flag declared true whose variable holds "TRUE"
C4_Witness ==
    \E n \in DOMAIN flags :
        /\ flags[n].type = "bool"
        /\ reg[n].value = TRUE
        /\ EnvAtRegistration(n) = <<<<"T","R","U","E">>, TRUE>>
        /\ flags[n].DefValue = FALSE

\* C5: a flag whose environment variable holds a value that is valid for its
\* type gets the parsed value, a string flag the value itself.
C5_ValidOverrides ==
    \A n \in DOMAIN flags :
        LET e == EnvAtRegistration(n) IN
        (e[2] /\ ValidFor(flags[n].type, e[1])) =>
            /\ flags[n].DefValue = EnvParse(flags[n].type, e[1]).v
            /\ ValueOf(n) = EnvParse(flags[n].type, e[1]).v

\* a duration flag whose variable holds ".8s", 800 milliseconds
C5_Witness ==
    \E n \in DOMAIN flags :
        /\ flags[n].type = "duration"
        /\ EnvAtRegistration(n) = <<<<".","8","s">>, TRUE>>
        /\ flags[n].DefValue = 800
        /\ reg[n].value # 800

\* C6: a Var constructor binds the flag to the caller's storage p: while the
\* flag has not been assigned, *p is the effective default, and at any time
\* *p is the flag's value.
C6_VarBindsCallerStorage ==
    \A n \in DOMAIN flags :
        reg[n].ctor \in VarCtors =>
            /\ mem[reg[n].p] = ValueOf(n)
            /\ reg[n].set = "no" => mem[reg[n].p] = flags[n].DefValue

BeginsWithDash(tok) == tok # <<>> /\ tok[1] = "-"

\* C7: after parsing, the verbs are the longest leading run of tokens that do
\* not begin with "-", in order and with duplicates.
C7_VerbsLeadingRun ==
    call.op = "GetVerbs" =>
        LET k == Len(call.out) IN
        /\ k <= Len(osArgs)
        /\ \A i \in 1..k : call.out[i] = osArgs[i] /\ ~BeginsWithDash(osArgs[i])
        /\ k < Len(osArgs) => BeginsWithDash(osArgs[k + 1])

\* the verbs of v v -t 1
C7_Witness ==
    /\ call.op = "GetVerbs"
    /\ osArgs = <<<<"v">>, <<"v">>, <<"-","t">>, <<"1">>>>
    /\ call.out = <<<<"v">>, <<"v">>>>

\* strings.Join(a, ",")
RECURSIVE Join(_)
Join(a) ==
    IF Len(a) = 0 THEN <<>>
    ELSE IF Len(a) = 1 THEN a[1]
    ELSE a[1] \o <<",">> \o Join(From(a, 2))

Commas(s) == Cardinality({i \in 1..Len(s) : s[i] = ","})

\* C8: the list parser returns the pieces of s between its commas, untrimmed:
\* one more than s has commas, none holding a comma, joining back to s; the
\* empty string gives one empty piece.
C8_ListPieces ==
    call.op = "ListFromString" =>
        /\ Len(call.out) >= 1
        /\ Len(call.out) = Commas(call.s) + 1
        /\ \A i \in 1..Len(call.out) : Commas(call.out[i]) = 0
        /\ Join(call.out) = call.s
        /\ call.s = <<>> => call.out = <<<<>>>>

\* the pieces of " ,,a"
C8_Witness ==
    /\ call.op = "ListFromString"
    /\ call.s = <<" ", ",", ",", "a">>
    /\ call.out = <<<<" ">>, <<>>, <<"a">>>>

\* C9: after a successful parse, a flag given on the command line holds the
\* command-line value, whatever its environment variable was at registration,
\* and a flag not given there holds the default resolved at registration
\* (flags assigned by Set aside).
C9_CommandLineOverridesEnv ==
    (parsed /\ status = "running") =>
        \A n \in DOMAIN flags :
            reg[n].set # "Set" =>
                ValueOf(n) = IF reg[n].set = "Parse"
                             THEN ValueSet(flags[n].type, reg[n].given).v
                             ELSE Resolved(n)

\* a flag given on the command line whose environment variable held another
\* valid value at registration
C9_Witness ==
    /\ parsed /\ status = "running"
    /\ \E n \in DOMAIN flags :
          /\ reg[n].set = "Parse"
          /\ EnvAtRegistration(n)[2]
          /\ flags[n].type \in {"int", "duration"}
          /\ ValidFor(flags[n].type, EnvAtRegistration(n)[1])
          /\ flags[n].DefValue # ValueOf(n)
          /\ flags[n].DefValue # reg[n].value

\* one step of C10
C10_Step ==
    /\ \A n \in DOMAIN flags' \ DOMAIN flags :
          /\ flags'[n].DefValue =
                ResolvedWith(flags'[n].type, reg'[n].value, envPrefix, environ, n)
          /\ mem'[flags'[n].cell] = flags'[n].DefValue
    /\ (envPrefix' # envPrefix \/ environ' # environ) =>
          /\ flags' = flags
          /\ \A n \in DOMAIN flags : mem'[flags[n].cell] = mem[flags[n].cell]
    /\ flags' # flags => (envPrefix' = envPrefix /\ environ' = environ)

\* C10: a flag's default is resolved with the prefix and the environment of
\* the moment of its registration; a later change of the prefix or of the
\* environment changes no defined flag's value or default, and a registration
\* changes neither the prefix nor the environment.
C10_ReadOnlyAtRegistration == [][C10_Step]_vars

\* a flag whose default came from a variable that has been unset since, under
\* a prefix that has been changed since
C10_Witness ==
    \E n \in DOMAIN flags :
        /\ reg[n].prefix # envPrefix
        /\ EnvAtRegistration(n)[2]
        /\ ~EnvOf(reg[n].prefix, environ, n)[2]
        /\ flags[n].DefValue # reg[n].value
        /\ ValueOf(n) = flags[n].DefValue

=============================================================================
